---- MODULE Spec2Model ----
(***************************************************************************)
(* Model of the max_flow crate (lib.rs): Graph<FlowEdge>, the BFS/DFS      *)
(* GraphIterator, path_from_visited, augmenting_path, max_flow and         *)
(* create_residual_edges.                                                  *)
(*                                                                         *)
(* Vec<T> indexed by VertexId is a function over 0..n-1; a Vec or VecDeque *)
(* that is only pushed, popped and iterated is a sequence.  An            *)
(* Option<T> is a record [some |-> BOOLEAN, val |-> T].                     *)
(***************************************************************************)
EXTENDS Integers, Sequences, FiniteSets, TLC

(* ------------------------------------------------------------------ *)
(* Bounds of the explored inputs                                      *)
(* ------------------------------------------------------------------ *)

\* number of vertexes of the exhaustively enumerated networks
NumVertexes == 3

\* longest enumerated input edge list
MaxEdges == 3

\* largest sum of the capacities of an enumerated input edge list
MaxTotalCap == 3

\* how far the augmentation counter may run past the sum of the capacities
\* leaving the source before the model stops counting
MaxOver == 1

\* the edge lists handed to Graph::new with an arbitrary vertex list have at
\* most MaxNewEdges entries
MaxNewEdges == 2

\* longest file handed to flow_from_dicaps, in lines
MaxLines == 6

(* ------------------------------------------------------------------ *)
(* Program constants                                                  *)
(* ------------------------------------------------------------------ *)

\* u32::MAX, the "unvisited" distance.  Only compared for equality; the
\* model uses a value no distance can take.
U32_MAX == -1

\* usize::MAX, the "no parent" vertex id.  Only compared for equality and
\* used as an (out of range) index; the model uses a value no id can take.
USIZE_MAX == -2

I32_MAX == 2147483647

\* i32::MIN
I32_MIN == -I32_MAX - 1

\* a - b leaves the range of i32
SubOverflows(a, b) ==
    IF b >= 0 THEN a < I32_MIN + b ELSE a > I32_MAX + b

\* a + b leaves the range of i32
AddOverflows(a, b) ==
    IF b >= 0 THEN a > I32_MAX - b ELSE a < I32_MIN - b

\* `a - b` on i32 where the build does not check for overflow: the difference
\* modulo 2^32, computed without leaving the range on the way
wrapping_sub(a, b) ==
    IF ~SubOverflows(a, b) THEN a - b
    ELSE IF b < 0 THEN (a + I32_MIN) - (b - I32_MIN)
    ELSE (a - I32_MIN) - (b + I32_MIN)

\* `a + b` on i32 where the build does not check for overflow
wrapping_add(a, b) ==
    IF ~AddOverflows(a, b) THEN a + b
    ELSE IF b > 0 THEN (a + I32_MIN) + (b + I32_MIN)
    ELSE (a - I32_MIN) + (b - I32_MIN)

BFS == "Bfs"

DFS == "Dfs"

Search == {BFS, DFS}

FlowEdge(c, f) == [capacity |-> c, flow |-> f]

\* #[derive(Default)] for FlowEdge
DefaultFlowEdge == FlowEdge(0, 0)

None == [some |-> FALSE, val |-> <<>>]

Some(x) == [some |-> TRUE, val |-> x]

min(a, b) == IF a <= b THEN a ELSE b

(* ------------------------------------------------------------------ *)
(* create_residual_edges and Graph::new                               *)
(* ------------------------------------------------------------------ *)

\* an edge list entry is <<source, destination, property>>
create_residual_edges(edge_list) ==
    edge_list \o [i \in 1..Len(edge_list) |->
                    <<edge_list[i][2], edge_list[i][1], FlowEdge(0, 0)>>]

\* the loop that lists no neighbor for a triple with the default property
RECURSIVE GraphNewLoopSkipsDefault(_, _, _)
GraphNewLoopSkipsDefault(edge_list, i, g) ==
    IF i > Len(edge_list) THEN g
    ELSE LET edge == edge_list[i] IN
         GraphNewLoopSkipsDefault(edge_list, i + 1,
            [g EXCEPT !.n_edges = @ + 1,
                      !.neighbors[edge[1]] =
                          IF edge[3] = DefaultFlowEdge THEN @ ELSE Append(@, edge[2]),
                      !.edges[edge[1]][edge[2]] = edge[3]])

\* the loop that keeps the first property of a repeated pair
RECURSIVE GraphNewLoopFirstWins(_, _, _)
GraphNewLoopFirstWins(edge_list, i, g) ==
    IF i > Len(edge_list) THEN g
    ELSE LET edge == edge_list[i]
             seen == \E j \in 1..(i - 1) :
                        edge_list[j][1] = edge[1] /\ edge_list[j][2] = edge[2]
         IN GraphNewLoopFirstWins(edge_list, i + 1,
               [g EXCEPT !.n_edges = @ + 1,
                         !.neighbors[edge[1]] = Append(@, edge[2]),
                         !.edges[edge[1]][edge[2]] = IF seen THEN @ ELSE edge[3]])

\* the for loop of Graph::new over edge_list, from entry i on
RECURSIVE GraphNewLoop(_, _, _)
GraphNewLoop(edge_list, i, g) ==
    IF i > Len(edge_list) THEN g
    ELSE LET edge == edge_list[i] IN
         GraphNewLoop(edge_list, i + 1,
            [g EXCEPT !.n_edges = @ + 1,
                      !.neighbors[edge[1]] = Append(@, edge[2]),
                      !.edges[edge[1]][edge[2]] = edge[3]])

\* Graph::new on the vertex list 0, 1, ..., v_len - 1
GraphNew(v_len, edge_list) ==
    GraphNewLoop(edge_list, 1,
        [edges      |-> [u \in 0..(v_len - 1) |-> [v \in 0..(v_len - 1) |-> DefaultFlowEdge]],
         neighbors  |-> [u \in 0..(v_len - 1) |-> <<>>],
         n_edges    |-> 0,
         n_vertexes |-> v_len])

\* the assertion loop that only asks every id to be below the length
RECURSIVE VertexListLoopInRange(_, _)
VertexListLoopInRange(vertex_list, i) ==
    IF i > Len(vertex_list) THEN TRUE
    ELSE vertex_list[i] < Len(vertex_list) /\ VertexListLoopInRange(vertex_list, i + 1)

\* the first loop of Graph::new over vertex_list, from entry i on, where
\* v_len = i - 1: TRUE when every assert!(*v == v_len) passes
RECURSIVE VertexListLoop(_, _)
VertexListLoop(vertex_list, i) ==
    IF i > Len(vertex_list) THEN TRUE
    ELSE vertex_list[i] = i - 1 /\ VertexListLoop(vertex_list, i + 1)

\* the index operations of the edge loop of Graph::new stay in range:
\* neighbors.get_mut(edge.0).unwrap() and edges[edge.0][edge.1]
EdgesInRange(v_len, edge_list) ==
    \A i \in 1..Len(edge_list) :
        edge_list[i][1] \in 0..(v_len - 1) /\ edge_list[i][2] \in 0..(v_len - 1)

\* Graph::new(vertex_list, edge_list): the graph it returns, or its panic
GraphNewResult(vertex_list, edge_list) ==
    IF VertexListLoop(vertex_list, 1) /\ EdgesInRange(Len(vertex_list), edge_list)
    THEN [status |-> "ok", graph |-> GraphNew(Len(vertex_list), edge_list)]
    ELSE [status |-> "panic", graph |-> GraphNew(0, <<>>)]

\* Graph::size
size(g) == <<g.n_vertexes, g.n_edges>>

(* ------------------------------------------------------------------ *)
(* flow_from_dicaps                                                   *)
(* ------------------------------------------------------------------ *)

\* a line is the list of its whitespace-separated tokens; a token is a word
\* or the decimal text of a number
Word(x) == [w |-> x, n |-> 0]

Num(k) == [w |-> "#", n |-> k]

\* parse::<i32>() succeeds on the token
IsInt(tok) == tok.w = "#"

\* parse::<usize>() succeeds on the token
IsUsize(tok) == tok.w = "#" /\ tok.n >= 0

\* the locals of flow_from_dicaps before its loop
DicapsLocals ==
    [status |-> "reading", num_vertexes |-> 0, num_edges |-> 0,
     source |-> None, sink |-> None, edges |-> <<>>, num_parsed_edges |-> 0]

\* the 4-token arm of the match, for a line that passes its checks
DicapsLine4(st, tokens) ==
    IF tokens[1] = Word("p")
    THEN IF IsUsize(tokens[3]) /\ IsInt(tokens[4])
         THEN [st EXCEPT !.num_vertexes = tokens[3].n, !.num_edges = tokens[4].n]
         ELSE [st EXCEPT !.status = "panic"]
    ELSE IF tokens[1] = Word("a")
    THEN IF IsUsize(tokens[2]) /\ IsUsize(tokens[3]) /\ IsInt(tokens[4])
         THEN [st EXCEPT !.edges = IF tokens[4].n > 0
                                   THEN Append(@, <<tokens[2].n, tokens[3].n,
                                                    FlowEdge(tokens[4].n, 0)>>)
                                   ELSE @,
                         !.num_parsed_edges = @ + 1]
         ELSE [st EXCEPT !.status = "panic"]
    ELSE [st EXCEPT !.status = "panic"]

\* the 3-token arm of the match
DicapsLine3(st, tokens) ==
    IF tokens[1] = Word("n") /\ tokens[3] = Word("s") /\ IsUsize(tokens[2])
    THEN [st EXCEPT !.source = Some(tokens[2].n)]
    ELSE IF tokens[1] = Word("n") /\ tokens[3] = Word("t") /\ IsUsize(tokens[2])
    THEN [st EXCEPT !.sink = Some(tokens[2].n)]
    ELSE [st EXCEPT !.status = "panic"]

\* the body that skips a line it does not know
DicapsLineSkipsUnknown(st, tokens) ==
    IF Len(tokens) = 4 /\ tokens[1] \in {Word("p"), Word("a")} THEN DicapsLine4(st, tokens)
    ELSE IF Len(tokens) = 3 /\ tokens[1] = Word("n") THEN DicapsLine3(st, tokens)
    ELSE IF Len(tokens) = 0 \/ tokens = <<Word("a")>> THEN [st EXCEPT !.status = "break"]
    ELSE st

\* the body of `for raw_line in reader.lines()`: match tokens.len()
DicapsLine(st, tokens) ==
    IF Len(tokens) = 4 THEN DicapsLine4(st, tokens)
    ELSE IF Len(tokens) = 3 THEN DicapsLine3(st, tokens)
    ELSE IF Len(tokens) = 1
    THEN IF tokens[1] = Word("a") THEN [st EXCEPT !.status = "break"]
         ELSE [st EXCEPT !.status = "panic"]
    ELSE IF Len(tokens) = 0 THEN [st EXCEPT !.status = "break"]
    ELSE [st EXCEPT !.status = "panic"]

\* the loop over the lines, from line i on, until a break or a panic
RECURSIVE DicapsLoop(_, _, _)
DicapsLoop(lines, i, st) ==
    IF i > Len(lines) \/ st.status /= "reading" THEN st
    ELSE DicapsLoop(lines, i + 1, DicapsLine(st, lines[i]))

\* flow_from_dicaps on the lines of its file: (source, sink, graph), or the
\* panic of a line, of an assertion, of a missing source or sink, or of Graph::new
flow_from_dicaps(lines) ==
    LET st         == DicapsLoop(lines, 1, DicapsLocals)
        vertex_set == {st.edges[j][1] : j \in 1..Len(st.edges)} \cup
                      {st.edges[j][2] : j \in 1..Len(st.edges)}
        vertexes   == [j \in 1..st.num_vertexes |-> j - 1]
        r          == GraphNewResult(vertexes, create_residual_edges(st.edges))
        ok         == /\ st.status /= "panic"
                      /\ st.num_parsed_edges = st.num_edges
                      /\ Cardinality(vertex_set) = st.num_vertexes
                      /\ st.source.some
                      /\ st.sink.some
                      /\ r.status = "ok"
    IN [status |-> IF ok THEN "ok" ELSE "panic",
        source |-> st.source, sink |-> st.sink, graph |-> r.graph,
        vertexes |-> vertexes, edges |-> st.edges]

(* ------------------------------------------------------------------ *)
(* GraphIterator                                                      *)
(* ------------------------------------------------------------------ *)

true_predicate(edge) == TRUE

\* the predicate that also admits a full edge
flow_predicateAdmitsFull(edge) == edge.capacity - edge.flow >= 0

flow_predicate(edge) == wrapping_sub(edge.capacity, edge.flow) > 0

\* the predicate field is the name of the function it holds
evaluate_predicate(it, edge) ==
    IF it.predicate = "flow_predicate" THEN flow_predicate(edge)
    ELSE true_predicate(edge)

\* GraphIterator::new panics at distances[source] = 0 when source is no
\* index of the vector of n_vertexes distances
GraphIteratorNewPanics(g, source) == source \notin 0..(g.n_vertexes - 1)

GraphIteratorNew(g, source, sink, predicate, search) ==
    [queue      |-> IF search = BFS THEN <<source>> ELSE <<>>,
     stack      |-> IF search = DFS THEN <<source>> ELSE <<>>,
     distances  |-> [v \in 0..(g.n_vertexes - 1) |-> IF v = source THEN 0 ELSE U32_MAX],
     parents    |-> [v \in 0..(g.n_vertexes - 1) |-> USIZE_MAX],
     predicate  |-> predicate,
     search     |-> search,
     sink       |-> sink,
     sink_found |-> FALSE]

\* the pop that empties the stack when it takes its newest vertex
popDropsOlder(it) ==
    IF it.search = BFS
    THEN IF it.queue = <<>> THEN [it |-> it, v |-> None]
         ELSE [it |-> [it EXCEPT !.queue = Tail(@)], v |-> Some(Head(it.queue))]
    ELSE IF it.stack = <<>> THEN [it |-> it, v |-> None]
         ELSE [it |-> [it EXCEPT !.stack = <<>>],
               v  |-> Some(it.stack[Len(it.stack)])]

\* the pop that takes the newest vertex in both modes
popNewest(it) ==
    IF it.search = BFS
    THEN IF it.queue = <<>> THEN [it |-> it, v |-> None]
         ELSE [it |-> [it EXCEPT !.queue = SubSeq(@, 1, Len(@) - 1)],
               v  |-> Some(it.queue[Len(it.queue)])]
    ELSE IF it.stack = <<>> THEN [it |-> it, v |-> None]
         ELSE [it |-> [it EXCEPT !.stack = SubSeq(@, 1, Len(@) - 1)],
               v  |-> Some(it.stack[Len(it.stack)])]

\* GraphIterator::pop: the iterator after the pop and the popped vertex
pop(it) ==
    IF it.search = BFS
    THEN IF it.queue = <<>> THEN [it |-> it, v |-> None]
         ELSE [it |-> [it EXCEPT !.queue = Tail(@)], v |-> Some(Head(it.queue))]
    ELSE IF it.stack = <<>> THEN [it |-> it, v |-> None]
         ELSE [it |-> [it EXCEPT !.stack = SubSeq(@, 1, Len(@) - 1)],
               v  |-> Some(it.stack[Len(it.stack)])]

\* push that keeps only the newest vertex on the stack
pushLosesStack(it, v) ==
    IF it.search = BFS
    THEN [it EXCEPT !.queue = Append(@, v)]
    ELSE [it EXCEPT !.stack = <<v>>]

push(it, v) ==
    IF it.search = BFS
    THEN [it EXCEPT !.queue = Append(@, v)]
    ELSE [it EXCEPT !.stack = Append(@, v)]

\* the loop that moves the parent of a vertex it meets again to `vertex`
RECURSIVE NextLoopRevisesParent(_, _, _, _)
NextLoopRevisesParent(g, it, vertex, i) ==
    IF i > Len(g.neighbors[vertex]) THEN it
    ELSE LET v == g.neighbors[vertex][i] IN
         IF evaluate_predicate(it, g.edges[vertex][v])
         THEN IF it.distances[v] = U32_MAX
              THEN NextLoopRevisesParent(g,
                       push([it EXCEPT !.distances[v] = it.distances[vertex] + 1,
                                       !.parents[v] = vertex], v),
                       vertex, i + 1)
              ELSE NextLoopRevisesParent(g, [it EXCEPT !.parents[v] = vertex],
                                         vertex, i + 1)
         ELSE NextLoopRevisesParent(g, it, vertex, i + 1)

\* the for loop of next() over graph.neighbors[vertex], from entry i on
RECURSIVE NextLoop(_, _, _, _)
NextLoop(g, it, vertex, i) ==
    IF i > Len(g.neighbors[vertex]) THEN it
    ELSE LET v == g.neighbors[vertex][i] IN
         IF it.distances[v] = U32_MAX /\ evaluate_predicate(it, g.edges[vertex][v])
         THEN NextLoop(g,
                  push([it EXCEPT !.distances[v] = it.distances[vertex] + 1,
                                  !.parents[v] = vertex], v),
                  vertex, i + 1)
         ELSE NextLoop(g, it, vertex, i + 1)

\* next() that marks the sink found and explores its edges all the same
IterNextExploresSink(g, it) ==
    IF it.sink_found THEN [it |-> it, item |-> None]
    ELSE LET p == pop(it) IN
         IF p.v.some
         THEN LET vertex == p.v.val
                  it1 == NextLoop(g, p.it, vertex, 1)
                  it2 == IF vertex = it.sink THEN [it1 EXCEPT !.sink_found = TRUE] ELSE it1
              IN [it   |-> it2,
                  item |-> Some(<<vertex, it2.distances[vertex], it2.parents[vertex]>>)]
         ELSE [it |-> p.it, item |-> None]

\* GraphIterator::next: the iterator afterwards and the Option<item>
IterNext(g, it) ==
    IF it.sink_found THEN [it |-> it, item |-> None]
    ELSE LET p == pop(it) IN
         IF p.v.some
         THEN LET vertex == p.v.val
                  it2 == IF vertex = it.sink
                         THEN [p.it EXCEPT !.sink_found = TRUE]
                         ELSE NextLoop(g, p.it, vertex, 1)
              IN [it   |-> it2,
                  item |-> Some(<<vertex, it2.distances[vertex], it2.parents[vertex]>>)]
         ELSE [it |-> p.it, item |-> None]

(* ------------------------------------------------------------------ *)
(* path_from_visited                                                  *)
(* ------------------------------------------------------------------ *)

\* the loop of path_from_visited with `path` pushed so far and `node` next.
\* An index outside node_parent_map panics; fuel runs out only when the
\* parents cycle without meeting source, where the code loops forever.
RECURSIVE PathLoop(_, _, _, _, _)
PathLoop(source, node_parent_map, node, path, fuel) ==
    LET path2 == Append(path, node) IN
    IF node = source THEN [status |-> "ok", path |-> path2]
    ELSE IF node \notin DOMAIN node_parent_map THEN [status |-> "panic", path |-> path2]
    ELSE IF fuel = 0 THEN [status |-> "diverge", path |-> path2]
    ELSE PathLoop(source, node_parent_map, node_parent_map[node], path2, fuel - 1)

Reverse(s) == [i \in 1..Len(s) |-> s[Len(s) + 1 - i]]

path_from_visited(source, sink, node_parent_map) ==
    LET r == PathLoop(source, node_parent_map, sink, <<>>,
                      Cardinality(DOMAIN node_parent_map) + 1)
    IN [r EXCEPT !.path = Reverse(@)]

(* ------------------------------------------------------------------ *)
(* augmenting_path and max_flow as functions of the graph             *)
(* ------------------------------------------------------------------ *)

\* the body of `for node in iter` in augmenting_path
ApBody(ap, sink, node) ==
    [node_parent_map |-> [ap.node_parent_map EXCEPT ![node[1]] = node[3]],
     sink_exists     |-> ap.sink_exists \/ node[1] = sink]

\* the locals of augmenting_path before its loop
ApLocals(g) ==
    [node_parent_map |-> [v \in 0..(g.n_vertexes - 1) |-> USIZE_MAX],
     sink_exists     |-> FALSE]

\* the tail of augmenting_path: Some(path) or None, and whether
\* path_from_visited returned ("ok") or faulted
ApResult(source, sink, ap) ==
    IF ap.sink_exists
    THEN LET r == path_from_visited(source, sink, ap.node_parent_map)
         IN [status |-> r.status, option |-> Some(r.path)]
    ELSE [status |-> "ok", option |-> None]

\* `for node in iter` of augmenting_path run to its end
RECURSIVE ApRun(_, _, _, _)
ApRun(g, it, ap, sink) ==
    LET r == IterNext(g, it) IN
    IF r.item.some THEN ApRun(g, r.it, ApBody(ap, sink, r.item.val), sink)
    ELSE ap

\* augmenting_path(source, sink, search) on graph g
augmenting_path(g, source, sink, search) ==
    ApResult(source, sink,
             ApRun(g, GraphIteratorNew(g, source, sink, "flow_predicate", search),
                   ApLocals(g), sink))

\* the bottleneck loop without the min: the residual of the last edge
RECURSIVE BottleneckNoMin(_, _, _, _)
BottleneckNoMin(g, path, i, flow) ==
    IF i > Len(path) THEN flow
    ELSE IF i + 1 > Len(path) THEN BottleneckNoMin(g, path, i + 1, flow)
    ELSE LET flow_edge == g.edges[path[i]][path[i + 1]] IN
         BottleneckNoMin(g, path, i + 1, flow_edge.capacity - flow_edge.flow)

\* the first loop of max_flow's Some(path) arm: the bottleneck
RECURSIVE Bottleneck(_, _, _, _)
Bottleneck(g, path, i, flow) ==
    IF i > Len(path) THEN flow
    ELSE IF i + 1 > Len(path) THEN Bottleneck(g, path, i + 1, flow)
    ELSE LET flow_edge == g.edges[path[i]][path[i + 1]] IN
         Bottleneck(g, path, i + 1,
                    min(wrapping_sub(flow_edge.capacity, flow_edge.flow), flow))

\* the update loop that takes the amount out of the capacity of the edge
RECURSIVE PushFlowConsumesCapacity(_, _, _, _)
PushFlowConsumesCapacity(g, path, i, flow) ==
    IF i + 1 > Len(path) THEN g
    ELSE LET v_0 == path[i]
             v_1 == path[i + 1]
             g1  == [g  EXCEPT !.edges[v_0][v_1].capacity = @ - flow]
             g2  == [g1 EXCEPT !.edges[v_1][v_0].capacity = @ + flow]
         IN PushFlowConsumesCapacity(g2, path, i + 1, flow)

\* the update loop that leaves the reverse edge alone
RECURSIVE PushFlowForwardOnly(_, _, _, _)
PushFlowForwardOnly(g, path, i, flow) ==
    IF i + 1 > Len(path) THEN g
    ELSE LET v_0 == path[i]
             v_1 == path[i + 1]
             g1  == [g  EXCEPT !.edges[v_0][v_1].flow = @ + flow]
         IN PushFlowForwardOnly(g1, path, i + 1, flow)

\* the update loop stopping one edge short of the sink
RECURSIVE PushFlowSkipLast(_, _, _, _)
PushFlowSkipLast(g, path, i, flow) ==
    IF i + 2 > Len(path) THEN g
    ELSE LET v_0 == path[i]
             v_1 == path[i + 1]
             g1  == [g  EXCEPT !.edges[v_0][v_1].flow = @ + flow]
             g2  == [g1 EXCEPT !.edges[v_1][v_0].flow = @ - flow]
         IN PushFlowSkipLast(g2, path, i + 1, flow)

\* the second loop of max_flow's Some(path) arm: `for edge in &edges`
RECURSIVE PushFlow(_, _, _, _)
PushFlow(g, path, i, flow) ==
    IF i + 1 > Len(path) THEN g
    ELSE LET v_0 == path[i]
             v_1 == path[i + 1]
             g1  == [g  EXCEPT !.edges[v_0][v_1].flow = wrapping_add(@, flow)]
             g2  == [g1 EXCEPT !.edges[v_1][v_0].flow = wrapping_sub(@, flow)]
         IN PushFlow(g2, path, i + 1, flow)

\* the loop that assigns where the code adds: the flow of the last neighbor
RECURSIVE TotalFlowLastOnly(_, _, _, _)
TotalFlowLastOnly(g, source, i, total_flow) ==
    IF i > Len(g.neighbors[source]) THEN total_flow
    ELSE LET v == g.neighbors[source][i] IN
         TotalFlowLastOnly(g, source, i + 1,
                   IF g.edges[source][v].capacity /= 0
                   THEN g.edges[source][v].flow
                   ELSE total_flow)

\* the None arm of max_flow: the loop over neighbors[source]
RECURSIVE TotalFlow(_, _, _, _)
TotalFlow(g, source, i, total_flow) ==
    IF i > Len(g.neighbors[source]) THEN total_flow
    ELSE LET v == g.neighbors[source][i] IN
         TotalFlow(g, source, i + 1,
                   IF g.edges[source][v].capacity /= 0
                   THEN wrapping_add(total_flow, g.edges[source][v].flow)
                   ELSE total_flow)

\* the next() call on it evaluates flow_predicate on an edge whose
\* `capacity - flow` leaves i32: an edge from the popped vertex, the sink
\* excepted, to a vertex with no distance yet
NextOverflows(g, it) ==
    LET p == pop(it) IN
    /\ it.predicate = "flow_predicate"
    /\ ~it.sink_found
    /\ p.v.some
    /\ p.v.val /= it.sink
    /\ \E i \in 1..Len(g.neighbors[p.v.val]) :
           LET v == g.neighbors[p.v.val][i] IN
           /\ it.distances[v] = U32_MAX
           /\ SubOverflows(g.edges[p.v.val][v].capacity, g.edges[p.v.val][v].flow)

\* the bottleneck loop meets an edge whose `capacity - flow` leaves i32
BottleneckOverflows(g, path) ==
    \E i \in 1..(Len(path) - 1) :
        SubOverflows(g.edges[path[i]][path[i + 1]].capacity,
                     g.edges[path[i]][path[i + 1]].flow)

\* the update loop leaves i32 at a `flow += flow` or a `flow -= flow`
RECURSIVE PushFlowOverflows(_, _, _, _)
PushFlowOverflows(g, path, i, flow) ==
    IF i + 1 > Len(path) THEN FALSE
    ELSE LET v_0 == path[i]
             v_1 == path[i + 1]
             g1  == [g  EXCEPT !.edges[v_0][v_1].flow = wrapping_add(@, flow)]
             g2  == [g1 EXCEPT !.edges[v_1][v_0].flow = wrapping_sub(@, flow)]
         IN \/ AddOverflows(g.edges[v_0][v_1].flow, flow)
            \/ SubOverflows(g1.edges[v_1][v_0].flow, flow)
            \/ PushFlowOverflows(g2, path, i + 1, flow)

\* the loop of the None arm leaves i32 at a `total_flow += flow`
RECURSIVE TotalFlowOverflows(_, _, _, _)
TotalFlowOverflows(g, source, i, total_flow) ==
    IF i > Len(g.neighbors[source]) THEN FALSE
    ELSE LET v == g.neighbors[source][i] IN
         IF g.edges[source][v].capacity /= 0
         THEN \/ AddOverflows(total_flow, g.edges[source][v].flow)
              \/ TotalFlowOverflows(g, source, i + 1,
                                    wrapping_add(total_flow, g.edges[source][v].flow))
         ELSE TotalFlowOverflows(g, source, i + 1, total_flow)

\* max_flow(source, sink, search) on graph g: the value returned and the graph
\* left behind.  fuel bounds the rounds of the loop; it runs out only where
\* the loop never ends.
RECURSIVE max_flow(_, _, _, _, _)
max_flow(g, source, sink, search, fuel) ==
    LET path_option == augmenting_path(g, source, sink, search).option IN
    IF path_option.some
    THEN IF fuel = 0 THEN [returns |-> FALSE, total_flow |-> 0, graph |-> g]
         ELSE LET path == path_option.val
                  flow == Bottleneck(g, path, 1, I32_MAX)
              IN max_flow(PushFlow(g, path, 1, flow), source, sink, search, fuel - 1)
    ELSE [returns |-> TRUE, total_flow |-> TotalFlow(g, source, 1, 0), graph |-> g]

(* ------------------------------------------------------------------ *)
(* Inputs                                                             *)
(* ------------------------------------------------------------------ *)

Vertexes(n) == 0..(n - 1)

E(u, v, c) == <<u, v, FlowEdge(c, 0)>>

\* the edge lists of at most k entries over n vertexes whose capacities are
\* positive and sum to at most w
RECURSIVE EdgeLists(_, _, _)
EdgeLists(n, k, w) ==
    IF k = 0 \/ w = 0 THEN {<<>>}
    ELSE {<<>>} \cup
         UNION {{<<E(u, v, c)>> \o q : q \in EdgeLists(n, k - 1, w - c)} :
                    u \in Vertexes(n), v \in Vertexes(n), c \in 1..w}

\* every such edge list over NumVertexes vertexes, every source and sink, built
\* with and without create_residual_edges
SmallCases ==
    {[n |-> NumVertexes, edge_list |-> el, source |-> s, sink |-> t, residuals |-> r] :
        el \in EdgeLists(NumVertexes, MaxEdges, MaxTotalCap),
        s \in Vertexes(NumVertexes), t \in Vertexes(NumVertexes), r \in BOOLEAN}

\* the networks of test_max_flow_0, test_max_flow_1, test_max_flow_2
TestMaxFlow0 ==
    [n |-> 7, source |-> 0, sink |-> 4, residuals |-> TRUE,
     edge_list |-> <<E(0,1,3), E(0,2,1), E(1,3,2), E(1,5,1), E(2,5,1),
                     E(2,6,1), E(3,4,2), E(5,6,1), E(6,4,2)>>]

TestMaxFlow1 ==
    [n |-> 4, source |-> 0, sink |-> 1, residuals |-> TRUE,
     edge_list |-> <<E(0,2,5), E(0,3,5), E(2,3,1), E(2,1,5), E(3,1,5)>>]

TestMaxFlow2 ==
    [n |-> 6, source |-> 0, sink |-> 5, residuals |-> TRUE,
     edge_list |-> <<E(0,1,11), E(0,2,12), E(2,1,1), E(1,3,12), E(2,4,11),
                     E(4,3,7), E(4,5,4), E(3,5,19)>>]

\* the network of test_augmenting_path, built without residual edges
TestAugmentingPath ==
    [n |-> 7, source |-> 0, sink |-> 4, residuals |-> FALSE,
     edge_list |-> <<E(0,1,1), E(0,2,1), E(1,3,1), E(1,5,1), E(2,5,1),
                     E(2,6,1), E(3,4,1)>>]

\* the routes 0-1-3-4 and 0-2-3-4 share the unit edge 3->4, and the edge 0->1
\* is listed twice
SharedBottleneck ==
    [n |-> 5, source |-> 0, sink |-> 4, residuals |-> TRUE,
     edge_list |-> <<E(0,1,1), E(0,1,1), E(0,2,1), E(1,3,1), E(2,3,1), E(3,4,1)>>]

\* breadth-first search first takes 0-1-3-5 and must then undo the flow on 1->3
\* (path 0-2-3-1-4-5) to reach the maximum flow 2
Cancellation ==
    [n |-> 6, source |-> 0, sink |-> 5, residuals |-> TRUE,
     edge_list |-> <<E(0,1,1), E(0,2,1), E(1,3,1), E(2,3,1), E(1,4,1),
                     E(4,5,1), E(3,5,1)>>]

\* the graphs of test_bfs and test_dfs, their edge properties as capacities
TestBfs ==
    [n |-> 6, source |-> 0, sink |-> 2, residuals |-> FALSE,
     edge_list |-> <<E(0,1,1), E(1,2,1), E(0,3,1), E(3,4,1), E(4,1,0),
                     E(4,5,1), E(5,2,1)>>]

TestDfs ==
    [n |-> 5, source |-> 0, sink |-> 4, residuals |-> FALSE,
     edge_list |-> <<E(0,3,1), E(0,1,1), E(1,2,1), E(2,4,1), E(3,4,1)>>]

\* the network of test_max_flow_0 with capacity 1 on 0->1, 1->3 and 3->4
UnitRoute134 ==
    [n |-> 7, source |-> 0, sink |-> 4, residuals |-> TRUE,
     edge_list |-> <<E(0,1,1), E(0,2,1), E(1,3,1), E(1,5,1), E(2,5,1),
                     E(2,6,1), E(3,4,1), E(5,6,1), E(6,4,2)>>]

Fixtures == {TestMaxFlow0, TestMaxFlow1, TestMaxFlow2, TestAugmentingPath,
             SharedBottleneck, Cancellation, TestBfs, TestDfs, UnitRoute134}

Cases == SmallCases \cup Fixtures

BuildGraph(c) ==
    GraphNew(c.n, IF c.residuals THEN create_residual_edges(c.edge_list) ELSE c.edge_list)

\* the capacities at and next to the top of i32, and a small one
WideCapacities == {1, I32_MAX - 1, I32_MAX}

\* two unit routes 0-1-2-3 and 0-4-2-3 with an edge 2->1 of capacity c against
\* the edge 1->2 of the first
WideReverse(c, r) ==
    [n |-> 5, source |-> 0, sink |-> 3, residuals |-> r,
     edge_list |-> <<E(0,1,1), E(0,4,1), E(1,2,1), E(4,2,1), E(2,3,2), E(2,1,c)>>]

\* one route 0-1-2 of capacity c
WideChain(c) ==
    [n |-> 3, source |-> 0, sink |-> 2, residuals |-> TRUE,
     edge_list |-> <<E(0,1,c), E(1,2,c)>>]

WideCases ==
    {WideReverse(c, r) : c \in WideCapacities, r \in BOOLEAN}
        \cup {WideChain(c) : c \in WideCapacities}

(* ------------------------------------------------------------------ *)
(* State                                                              *)
(* ------------------------------------------------------------------ *)

VARIABLES
    file,            \* the lines of the file flow_from_dicaps reads, as token lists
    vertex_list,     \* the caller's vertex list
    edge_list,       \* the caller's edge list, before create_residual_edges
    residuals,       \* whether the caller applied create_residual_edges
    graph,           \* the Graph<FlowEdge>
    source, sink,    \* the (source, sink) pair handed over with the graph
    pc,              \* "idle", "mf_loop", "ap_iter", "mf_match", "it_open", "panic",
                     \* and before the graph exists "new", "parse", "path";
                     \* "diverge" when a loop of the code never ends
    call,            \* the API call in progress or last returned
    mf_search,       \* the search parameter of max_flow
    iter,            \* the GraphIterator of the traversal in progress
    visited,         \* the items the traversal has produced, in order
    last_item,       \* what the last next() returned
    ap,              \* augmenting_path's node_parent_map and sink_exists
    path_option,     \* what augmenting_path last returned
    total_flow,      \* what max_flow last returned
    flow,            \* the bottleneck of the last augmentation
    augs,            \* augmentations of the max_flow call
    pushed,          \* running total of the bottlenecks of the max_flow call
    entry_zero,      \* every flow of the matrix was 0 when max_flow was called
    mf_returned      \* max_flow has returned on this graph

vars == <<file, vertex_list, edge_list, residuals, graph, source, sink, pc, call, mf_search, iter, visited,
          last_item, ap, path_option, total_flow, flow, augs, pushed, entry_zero,
          mf_returned>>

input == <<file, vertex_list, edge_list, residuals, source, sink>>

mf_locals == <<mf_search, total_flow, flow, augs, pushed, entry_zero, mf_returned>>

NoGraph == [n_vertexes |-> 0]

NoIter == GraphIteratorNew(NoGraph, 0, 0, "none", BFS)

Init ==
    \E c \in Cases :
        /\ file = <<>>
        /\ vertex_list = [i \in 1..c.n |-> i - 1]
        /\ edge_list = c.edge_list
        /\ residuals = c.residuals
        /\ graph = BuildGraph(c)
        /\ source = c.source
        /\ sink = c.sink
        /\ pc = "idle"
        /\ call = "none"
        /\ mf_search = BFS
        /\ iter = NoIter
        /\ visited = <<>>
        /\ last_item = None
        /\ ap = ApLocals(NoGraph)
        /\ path_option = None
        /\ total_flow = None
        /\ flow = 0
        /\ augs = 0
        /\ pushed = 0
        /\ entry_zero = FALSE
        /\ mf_returned = FALSE

AllFlowsZero(g) ==
    \A u \in Vertexes(g.n_vertexes) : \A v \in Vertexes(g.n_vertexes) : g.edges[u][v].flow = 0

\* the sum of the capacities met by a loop over neighbors[s], from entry i on
RECURSIVE CapOut(_, _, _)
CapOut(g, s, i) ==
    IF i > Len(g.neighbors[s]) THEN 0
    ELSE g.edges[s][g.neighbors[s][i]].capacity + CapOut(g, s, i + 1)

(* ------------------------------------------------------------------ *)
(* Actions                                                            *)
(* ------------------------------------------------------------------ *)

\* graph.max_flow(source, sink, m) is called: total_flow = 0, loop entry
MaxFlowCall(m) ==
    /\ pc = "idle"
    /\ pc' = "mf_loop"
    /\ call' = "max_flow"
    /\ mf_search' = m
    /\ path_option' = None
    /\ flow' = 0
    /\ augs' = 0
    /\ pushed' = 0
    /\ entry_zero' = AllFlowsZero(graph)
    /\ iter' = NoIter
    /\ visited' = <<>>
    /\ last_item' = None
    /\ ap' = ApLocals(NoGraph)
    /\ UNCHANGED <<input, graph, total_flow, mf_returned>>

\* the head of the max_flow loop: self.augmenting_path(source, sink, search)
\* builds its iterator and locals
MaxFlowLoop ==
    /\ pc = "mf_loop"
    /\ IF GraphIteratorNewPanics(graph, source)
       THEN /\ pc' = "panic"
            /\ UNCHANGED <<iter, ap>>
       ELSE /\ pc' = "ap_iter"
            /\ iter' = GraphIteratorNew(graph, source, sink, "flow_predicate", mf_search)
            /\ ap' = ApLocals(graph)
    /\ visited' = <<>>
    /\ last_item' = None
    /\ UNCHANGED <<input, graph, call, path_option, mf_locals>>

\* graph.augmenting_path(source, sink, m) is called on its own
AugmentingPathCall(m) ==
    /\ pc = "idle"
    /\ call' = "augmenting_path"
    /\ IF GraphIteratorNewPanics(graph, source)
       THEN /\ pc' = "panic"
            /\ UNCHANGED <<iter, ap>>
       ELSE /\ pc' = "ap_iter"
            /\ iter' = GraphIteratorNew(graph, source, sink, "flow_predicate", m)
            /\ ap' = ApLocals(graph)
    /\ visited' = <<>>
    /\ last_item' = None
    /\ path_option' = None
    /\ UNCHANGED <<input, graph, mf_locals>>

\* one round of `for node in iter`: next() yields an item and the body runs
ApStep ==
    /\ pc = "ap_iter"
    /\ LET r == IterNext(graph, iter) IN
        /\ r.item.some
        /\ iter' = r.it
        /\ visited' = Append(visited, r.item.val)
        /\ last_item' = r.item
        /\ ap' = ApBody(ap, sink, r.item.val)
    /\ UNCHANGED <<input, graph, pc, call, path_option, mf_locals>>

\* next() yields None: the for loop ends and augmenting_path returns, or
\* path_from_visited faults
ApReturn ==
    /\ pc = "ap_iter"
    /\ LET r == IterNext(graph, iter) IN
        /\ ~r.item.some
        /\ iter' = r.it
        /\ last_item' = r.item
    /\ LET res == ApResult(source, sink, ap) IN
        /\ path_option' = IF res.status = "ok" THEN res.option ELSE None
        /\ pc' = IF res.status /= "ok" THEN "panic"
                 ELSE IF call = "max_flow" THEN "mf_match" ELSE "idle"
    /\ UNCHANGED <<input, graph, call, visited, ap, mf_locals>>

\* the Some(path) arm of max_flow
MaxFlowAugment ==
    /\ pc = "mf_match"
    /\ path_option.some
    /\ augs - MaxOver < CapOut(graph, source, 1)
    /\ LET path == path_option.val
           f    == Bottleneck(graph, path, 1, I32_MAX)
       IN /\ flow' = f
          /\ graph' = PushFlow(graph, path, 1, f)
          /\ pushed' = IF Len(path) > 1 THEN pushed + f ELSE pushed
    /\ augs' = augs + 1
    /\ pc' = "mf_loop"
    /\ UNCHANGED <<input, call, mf_search, iter, visited, last_item, ap, path_option,
                   total_flow, entry_zero, mf_returned>>

\* the None arm of max_flow: sum the flow leaving the source and return it
MaxFlowReturn ==
    /\ pc = "mf_match"
    /\ ~path_option.some
    /\ total_flow' = Some(TotalFlow(graph, source, 1, 0))
    /\ mf_returned' = TRUE
    /\ pc' = "idle"
    /\ UNCHANGED <<input, graph, call, mf_search, iter, visited, last_item, ap,
                   path_option, flow, augs, pushed, entry_zero>>

\* graph.bfs_iter(source, sink) or graph.dfs_iter(source, sink)
IterCall(m) ==
    /\ pc = "idle"
    /\ call' = "iter"
    /\ IF GraphIteratorNewPanics(graph, source)
       THEN /\ pc' = "panic"
            /\ iter' = NoIter
       ELSE /\ pc' = "it_open"
            /\ iter' = GraphIteratorNew(graph, source, sink, "true_predicate", m)
    /\ visited' = <<>>
    /\ last_item' = None
    /\ ap' = ApLocals(NoGraph)
    /\ path_option' = None
    /\ UNCHANGED <<input, graph, mf_locals>>

\* the caller calls next() on the iterator, also after it has yielded None
IterNextCall ==
    /\ pc = "it_open"
    /\ LET r == IterNext(graph, iter) IN
        /\ iter' = r.it
        /\ last_item' = r.item
        /\ visited' = IF r.item.some THEN Append(visited, r.item.val) ELSE visited
    /\ UNCHANGED <<input, graph, pc, call, ap, path_option, mf_locals>>

\* the caller drops the iterator
IterDrop ==
    /\ pc = "it_open"
    /\ pc' = "idle"
    /\ iter' = NoIter
    /\ visited' = <<>>
    /\ last_item' = None
    /\ UNCHANGED <<input, graph, call, ap, path_option, mf_locals>>

Next ==
    \/ \E m \in Search : MaxFlowCall(m)
    \/ MaxFlowLoop
    \/ \E m \in Search : AugmentingPathCall(m)
    \/ ApStep
    \/ ApReturn
    \/ MaxFlowAugment
    \/ MaxFlowReturn
    \/ \E m \in Search : IterCall(m)
    \/ IterNextCall
    \/ IterDrop

Spec == Init /\ [][Next]_vars

(* ------------------------------------------------------------------ *)
(* Graph::new on any vertex list and edge list, and the calls after it *)
(* ------------------------------------------------------------------ *)

\* the vertex lists of at most NumVertexes ids below NumVertexes
VertexLists ==
    UNION {[1..k -> Vertexes(NumVertexes)] : k \in 0..NumVertexes}

\* the caller holds a vertex list, an edge list and a (source, sink) pair; with
\* a short vertex list the ids of the edges, source and sink are out of range
InitNew ==
    /\ file = <<>>
    /\ vertex_list \in VertexLists
    /\ edge_list \in EdgeLists(NumVertexes, MaxNewEdges, MaxTotalCap)
    /\ residuals \in BOOLEAN
    /\ source \in Vertexes(NumVertexes)
    /\ sink \in Vertexes(NumVertexes)
    /\ graph = GraphNew(0, <<>>)
    /\ pc = "new"
    /\ call = "none"
    /\ mf_search = BFS
    /\ iter = NoIter
    /\ visited = <<>>
    /\ last_item = None
    /\ ap = ApLocals(NoGraph)
    /\ path_option = None
    /\ total_flow = None
    /\ flow = 0
    /\ augs = 0
    /\ pushed = 0
    /\ entry_zero = FALSE
    /\ mf_returned = FALSE

\* the edge list handed to Graph::new
PassedEdgeList == IF residuals THEN create_residual_edges(edge_list) ELSE edge_list

\* Graph::new(&vertex_list, &edge_list), after create_residual_edges when
\* the caller applies it
GraphNewCall ==
    /\ pc = "new"
    /\ LET r == GraphNewResult(vertex_list, PassedEdgeList) IN
        /\ pc' = IF r.status = "ok" THEN "idle" ELSE "panic"
        /\ graph' = r.graph
    /\ UNCHANGED <<input, call, iter, visited, last_item, ap, path_option, mf_locals>>

NextNew ==
    \/ GraphNewCall
    \/ Next

SpecNew == InitNew /\ [][NextNew]_vars

(* ------------------------------------------------------------------ *)
(* path_from_visited on any parent map                                *)
(* ------------------------------------------------------------------ *)

\* the parent maps of NumVertexes entries, each an id or usize::MAX
ParentMaps == [Vertexes(NumVertexes) -> Vertexes(NumVertexes) \cup {USIZE_MAX}]

\* the caller holds a parent map and a (source, sink) pair, in range or one
\* past the end of the map
InitPath ==
    /\ file = <<>>
    /\ vertex_list = <<>>
    /\ edge_list = <<>>
    /\ residuals = FALSE
    /\ source \in 0..NumVertexes
    /\ sink \in 0..NumVertexes
    /\ graph = GraphNew(0, <<>>)
    /\ pc = "path"
    /\ call = "none"
    /\ mf_search = BFS
    /\ iter = NoIter
    /\ visited = <<>>
    /\ last_item = None
    /\ \E m \in ParentMaps : ap = [node_parent_map |-> m, sink_exists |-> TRUE]
    /\ path_option = None
    /\ total_flow = None
    /\ flow = 0
    /\ augs = 0
    /\ pushed = 0
    /\ entry_zero = FALSE
    /\ mf_returned = FALSE

\* path_from_visited(source, sink, &node_parent_map): it returns the path,
\* panics on the lookup, or never leaves its loop
PathFromVisitedCall ==
    /\ pc = "path"
    /\ call' = "path_from_visited"
    /\ LET r == path_from_visited(source, sink, ap.node_parent_map) IN
        /\ pc' = IF r.status = "ok" THEN "idle" ELSE r.status
        /\ path_option' = IF r.status = "ok" THEN Some(r.path) ELSE None
    /\ UNCHANGED <<input, graph, iter, visited, last_item, ap, mf_locals>>

NextPath == PathFromVisitedCall

SpecPath == InitPath /\ [][NextPath]_vars

(* ------------------------------------------------------------------ *)
(* flow_from_dicaps on any file                                       *)
(* ------------------------------------------------------------------ *)

\* the lines a file is made of: problem lines, source and sink lines, edge
\* lines (one of capacity 0), the empty line, the lone "a", a comment line and
\* an edge line whose source is no number
Lines ==
    {<<Word("p"), Word("max"), Num(2), Num(1)>>,
     <<Word("p"), Word("max"), Num(2), Num(2)>>,
     <<Word("n"), Num(0), Word("s")>>,
     <<Word("n"), Num(1), Word("t")>>,
     <<Word("a"), Num(0), Num(1), Num(1)>>,
     <<Word("a"), Num(0), Num(2), Num(0)>>,
     <<>>,
     <<Word("a")>>,
     <<Word("c"), Word("x")>>,
     <<Word("a"), Word("x"), Num(1), Num(1)>>}

\* the files of at most MaxLines lines
Files == UNION {[1..k -> Lines] : k \in 0..MaxLines}

InitDicaps ==
    /\ file \in Files
    /\ vertex_list = <<>>
    /\ edge_list = <<>>
    /\ residuals = FALSE
    /\ source = 0
    /\ sink = 0
    /\ graph = GraphNew(0, <<>>)
    /\ pc = "parse"
    /\ call = "none"
    /\ mf_search = BFS
    /\ iter = NoIter
    /\ visited = <<>>
    /\ last_item = None
    /\ ap = ApLocals(NoGraph)
    /\ path_option = None
    /\ total_flow = None
    /\ flow = 0
    /\ augs = 0
    /\ pushed = 0
    /\ entry_zero = FALSE
    /\ mf_returned = FALSE

\* flow_from_dicaps(file_name) on an existing file: it returns
\* (source, sink, graph) or panics
FlowFromDicapsCall ==
    /\ pc = "parse"
    /\ call' = "flow_from_dicaps"
    /\ LET r == flow_from_dicaps(file) IN
        IF r.status = "ok"
        THEN /\ pc' = "idle"
             /\ source' = r.source.val
             /\ sink' = r.sink.val
             /\ graph' = r.graph
             /\ vertex_list' = r.vertexes
             /\ edge_list' = r.edges
             /\ residuals' = TRUE
        ELSE /\ pc' = "panic"
             /\ UNCHANGED <<source, sink, graph, vertex_list, edge_list, residuals>>
    /\ UNCHANGED <<file, iter, visited, last_item, ap, path_option, mf_locals>>

NextDicaps == FlowFromDicapsCall

SpecDicaps == InitDicaps /\ [][NextDicaps]_vars

(* ------------------------------------------------------------------ *)
(* max_flow on capacities up to i32::MAX                              *)
(* ------------------------------------------------------------------ *)

InitWide ==
    \E c \in WideCases :
        /\ file = <<>>
        /\ vertex_list = [i \in 1..c.n |-> i - 1]
        /\ edge_list = c.edge_list
        /\ residuals = c.residuals
        /\ graph = BuildGraph(c)
        /\ source = c.source
        /\ sink = c.sink
        /\ pc = "idle"
        /\ call = "none"
        /\ mf_search = BFS
        /\ iter = NoIter
        /\ visited = <<>>
        /\ last_item = None
        /\ ap = ApLocals(NoGraph)
        /\ path_option = None
        /\ total_flow = None
        /\ flow = 0
        /\ augs = 0
        /\ pushed = 0
        /\ entry_zero = FALSE
        /\ mf_returned = FALSE

\* the step the program is about to take leaves i32 in one of its
\* subtractions or additions
Overflows ==
    IF pc = "ap_iter" THEN NextOverflows(graph, iter)
    ELSE IF pc = "mf_match"
    THEN IF path_option.some
         THEN LET path == path_option.val IN
              \/ BottleneckOverflows(graph, path)
              \/ PushFlowOverflows(graph, path, 1, Bottleneck(graph, path, 1, I32_MAX))
         ELSE TotalFlowOverflows(graph, source, 1, 0)
    ELSE FALSE

\* a build that checks for overflow panics at such a step ("attempt to
\* subtract with overflow"); a build that does not goes on with the wrapped
\* value, which is the step ApStep, ApReturn, MaxFlowAugment or MaxFlowReturn
\* takes
ArithmeticOverflow ==
    /\ Overflows
    /\ pc' = "panic"
    /\ UNCHANGED <<input, graph, call, iter, visited, last_item, ap, path_option,
                   mf_locals>>

NextWide == ArithmeticOverflow \/ Next

SpecWide == InitWide /\ [][NextWide]_vars

(* ------------------------------------------------------------------ *)
(* Vocabulary of the properties                                       *)
(* ------------------------------------------------------------------ *)

max(a, b) == IF a >= b THEN a ELSE b

RECURSIVE SumOver(_, _)
SumOver(S, f) ==
    IF S = {} THEN 0
    ELSE LET x == CHOOSE y \in S : TRUE IN f[x] + SumOver(S \ {x}, f)

V == Vertexes(graph.n_vertexes)

IsEdge(g, u, v) == \E i \in 1..Len(g.neighbors[u]) : g.neighbors[u][i] = v

Residual(g, u, v) == g.edges[u][v].capacity - g.edges[u][v].flow

\* max_flow has just returned from a call made with every flow at zero
JustReturned == pc = "idle" /\ call = "max_flow" /\ entry_zero

\* the max_flow loop is at its entry, or max_flow has returned
AtLoopEntryOrAfter == pc = "mf_loop" \/ mf_returned

\* the input capacity crossing from S to its complement
CutCapacity(S) ==
    LET Crossing == {i \in 1..Len(edge_list) :
                        edge_list[i][1] \in S /\ edge_list[i][2] \notin S}
        cap == [i \in Crossing |-> edge_list[i][3].capacity]
    IN SumOver(Crossing, cap)

SourceSides == {S \in SUBSET V : source \in S /\ sink \notin S}

MinCut == CHOOSE c \in {CutCapacity(S) : S \in SourceSides} :
              \A S \in SourceSides : c <= CutCapacity(S)

\* no (source, destination) pair is listed twice in the input edge list
NoRepeatedPair ==
    \A i, j \in 1..Len(edge_list) :
        (edge_list[i][1] = edge_list[j][1] /\ edge_list[i][2] = edge_list[j][2]) => i = j

\* no input edge has its reverse in the input edge list
NoReverseInput ==
    \A i, j \in 1..Len(edge_list) :
        ~(edge_list[i][1] = edge_list[j][2] /\ edge_list[i][2] = edge_list[j][1])

\* the flow leaving s, counting every entry of the matrix row once
NetOut(g, s) ==
    SumOver(Vertexes(g.n_vertexes), [v \in Vertexes(g.n_vertexes) |-> g.edges[s][v].flow])

\* the capacity leaving the source: the larger of the sum over the input edge
\* list and the sum over neighbors[source]
SourceCapacity ==
    LET Leaving == {i \in 1..Len(edge_list) : edge_list[i][1] = source}
        cap == [i \in Leaving |-> edge_list[i][3].capacity]
    IN max(SumOver(Leaving, cap), CapOut(graph, source, 1))

(* ------------------------------------------------------------------ *)
(* C1                                                                 *)
(* ------------------------------------------------------------------ *)

\* C1: on a graph built with create_residual_edges and Graph::new, for
\* source /= sink, max_flow returns the minimum over all source/sink cuts of
\* the input capacity crossing the cut.
C1_MaxFlowIsMinCut ==
    (JustReturned /\ residuals /\ source /= sink) => total_flow.val = MinCut

\* the same on the inputs that list no pair twice and no edge with its reverse
C1_MinCutOnSimpleInputs ==
    (JustReturned /\ residuals /\ source /= sink /\ NoRepeatedPair /\ NoReverseInput)
        => total_flow.val = MinCut

(* ------------------------------------------------------------------ *)
(* C2                                                                 *)
(* ------------------------------------------------------------------ *)

\* C2: every augmentation pushes a bottleneck of at least 1 and strictly
\* increases the total flow, so a max_flow call performs at most (sum of the
\* capacities leaving the source) augmentations, for every source and sink.
C2_AugmentationsBounded ==
    (call = "max_flow" /\ entry_zero) =>
        /\ augs <= SourceCapacity
        /\ augs <= NetOut(graph, source)
        /\ (augs > 0 => flow >= 1)

\* the same for source /= sink
C2_BoundedWhenDistinct ==
    (call = "max_flow" /\ entry_zero /\ source /= sink) =>
        /\ augs <= SourceCapacity
        /\ augs <= NetOut(graph, source)
        /\ (augs > 0 => flow >= 1)
        /\ (pc = "mf_match" /\ path_option.some => ENABLED MaxFlowAugment)

(* ------------------------------------------------------------------ *)
(* C3                                                                 *)
(* ------------------------------------------------------------------ *)

\* C3 as stated: at every entry of the max_flow loop and after max_flow
\* returns, every edge (u, v) with v in neighbors[u], the synthesized reverse
\* edges included, has 0 <= flow <= capacity.
C3_EveryEdgeNonNegative ==
    AtLoopEntryOrAfter =>
        \A u \in V : \A v \in V :
            IsEdge(graph, u, v) =>
                /\ 0 <= graph.edges[u][v].flow
                /\ graph.edges[u][v].flow <= graph.edges[u][v].capacity

\* C3 amended: at every entry of the max_flow loop and after max_flow returns,
\* every pair (u, v) has -capacity[v][u] <= flow[u][v] <= capacity[u][v]; so
\* 0 <= flow <= capacity on every edge whose reverse has capacity 0, and a
\* zero-capacity reverse edge carries a flow between -capacity[v][u] and 0.
C3_FlowWithinCapacities ==
    AtLoopEntryOrAfter =>
        \A u \in V : \A v \in V :
            /\ -graph.edges[v][u].capacity <= graph.edges[u][v].flow
            /\ graph.edges[u][v].flow <= graph.edges[u][v].capacity

\* a loop entry after an augmentation along a path of two edges whose
\* bottleneck is below the capacity of one of them, with a reverse edge
\* carrying negative flow
C3_Witness ==
    /\ pc = "mf_loop"
    /\ augs > 0
    /\ Len(path_option.val) > 2
    /\ \E u \in V : \E v \in V :
        /\ IsEdge(graph, u, v) /\ IsEdge(graph, v, u)
        /\ graph.edges[v][u].capacity = 0 /\ graph.edges[v][u].flow < 0
        /\ 0 < graph.edges[u][v].flow
        /\ graph.edges[u][v].flow < graph.edges[u][v].capacity

(* ------------------------------------------------------------------ *)
(* C4                                                                 *)
(* ------------------------------------------------------------------ *)

\* the flow over the positive-capacity edges leaving v, and entering v
OutFlow(v) ==
    LET Out == {u \in V : graph.edges[v][u].capacity > 0}
    IN SumOver(Out, [u \in Out |-> graph.edges[v][u].flow])

InFlow(v) ==
    LET In == {u \in V : graph.edges[u][v].capacity > 0}
    IN SumOver(In, [u \in In |-> graph.edges[u][v].flow])

Conserved == \A v \in V \ {source, sink} : OutFlow(v) = InFlow(v)

\* no two distinct vertexes have positive capacity in both directions
NoTwoWay ==
    \A u \in V : \A v \in V \ {u} :
        ~(graph.edges[u][v].capacity > 0 /\ graph.edges[v][u].capacity > 0)

\* C4 as stated: on any graph whose flows were zero at entry, at every entry
\* of the max_flow loop and after max_flow returns, every vertex other than
\* source and sink has equal flow over its positive-capacity outgoing and
\* incoming edges.
C4_Conservation == AtLoopEntryOrAfter => Conserved

\* C4 amended: the same on every graph in which no two vertexes have positive
\* capacity in both directions (every graph built with create_residual_edges
\* is one).
C4_ConservationOneWay == (AtLoopEntryOrAfter /\ NoTwoWay) => Conserved

\* max_flow has returned and some vertex other than source and sink passes
\* flow on
C4_Witness ==
    /\ JustReturned
    /\ NoTwoWay
    /\ \E v \in V \ {source, sink} : OutFlow(v) > 0

\* every graph built with create_residual_edges has no two-way pair
ResidualsGiveOneWay == residuals => NoTwoWay

\* the net flow out of every vertex other than source and sink is 0
NetConserved == \A v \in V \ {source, sink} : NetOut(graph, v) = 0

(* ------------------------------------------------------------------ *)
(* C5                                                                 *)
(* ------------------------------------------------------------------ *)

OtherSearch(m) == IF m = BFS THEN DFS ELSE BFS

\* the graph as Graph::new returned it
BuiltGraph ==
    GraphNew(graph.n_vertexes,
             IF residuals THEN create_residual_edges(edge_list) ELSE edge_list)

\* what max_flow returns in the other mode on an identical copy of the graph
OtherModeRun ==
    max_flow(BuiltGraph, source, sink, OtherSearch(mf_search), SourceCapacity + 1)

\* C5: max_flow in breadth-first mode and in depth-first mode on two identical
\* copies of a graph return the same total flow.
C5_ModesAgree ==
    JustReturned => (OtherModeRun.returns /\ OtherModeRun.total_flow = total_flow.val)

\* the same on the inputs that list no pair twice
C5_AgreeWithoutRepeats ==
    (JustReturned /\ NoRepeatedPair) =>
        (OtherModeRun.returns /\ OtherModeRun.total_flow = total_flow.val)

(* ------------------------------------------------------------------ *)
(* C6                                                                 *)
(* ------------------------------------------------------------------ *)

\* C6: once max_flow has returned, augmenting_path(source, sink, m) on the
\* same graph returns no path, in either mode.
C6_NoPathAfterMaxFlow ==
    (mf_returned /\ pc = "idle" /\ call = "augmenting_path") => ~path_option.some

\* augmenting_path has returned, called in the mode max_flow did not use, after
\* a max_flow that pushed flow
C6_Witness ==
    /\ mf_returned /\ pc = "idle" /\ call = "augmenting_path"
    /\ iter.search /= mf_search
    /\ pushed > 0
    /\ ~path_option.some

(* ------------------------------------------------------------------ *)
(* C7                                                                 *)
(* ------------------------------------------------------------------ *)

HasInput(u, v) == \E j \in 1..Len(edge_list) : edge_list[j][1] = u /\ edge_list[j][2] = v

\* C7: after create_residual_edges and Graph::new, every input edge (u, v, c)
\* is in the graph with capacity c, and so is v->u, with capacity 0 when v->u
\* was no input edge and with its own input capacity when it was.  Stated for
\* the inputs that list no pair twice, where "the" capacity of a pair is one
\* number, and for the edges between two distinct vertexes.
C7_ExplicitReverseKept ==
    (residuals /\ NoRepeatedPair) =>
        \A i \in 1..Len(edge_list) :
            LET u == edge_list[i][1]
                v == edge_list[i][2]
                c == edge_list[i][3].capacity
            IN u /= v =>
                   /\ IsEdge(graph, u, v)
                   /\ graph.edges[u][v].capacity = c
                   /\ IsEdge(graph, v, u)
                   /\ (~HasInput(v, u) => graph.edges[v][u].capacity = 0)

\* the part of C7 the code satisfies: an input edge whose reverse is no input
\* edge keeps its capacity and gets a zero-capacity reverse edge
C7_WithoutReverseInput ==
    (residuals /\ NoRepeatedPair) =>
        \A i \in 1..Len(edge_list) :
            LET u == edge_list[i][1]
                v == edge_list[i][2]
                c == edge_list[i][3].capacity
            IN /\ IsEdge(graph, u, v)
               /\ IsEdge(graph, v, u)
               /\ (~HasInput(v, u) =>
                      graph.edges[u][v].capacity = c /\ graph.edges[v][u].capacity = 0)
               /\ (HasInput(v, u) =>
                      graph.edges[u][v].capacity = 0 /\ graph.edges[v][u].capacity = 0)

(* ------------------------------------------------------------------ *)
(* C8                                                                 *)
(* ------------------------------------------------------------------ *)

\* C8: for a graph whose flows are zero at entry, the value max_flow returns
\* equals the running total of the bottlenecks of its augmentations, for every
\* edge list, repeated pairs included.
C8_ReturnIsRunningTotal == JustReturned => total_flow.val = pushed

\* the same on the inputs that list no pair twice
C8_TotalWithoutRepeats == (JustReturned /\ NoRepeatedPair) => total_flow.val = pushed

(* ------------------------------------------------------------------ *)
(* C9                                                                 *)
(* ------------------------------------------------------------------ *)

\* u->v is listed in neighbors and has spare capacity
Admissible(g, u, v) == IsEdge(g, u, v) /\ Residual(g, u, v) > 0

\* the vertexes reachable from those of S through admissible edges
RECURSIVE Reach(_, _)
Reach(g, S) ==
    LET T == S \cup {v \in Vertexes(g.n_vertexes) : \E u \in S : Admissible(g, u, v)}
    IN IF T = S THEN S ELSE Reach(g, T)

\* augmenting_path has just returned path_option
ApReturned == pc = "mf_match" \/ (pc = "idle" /\ call = "augmenting_path")

\* C9: augmenting_path never faults; it returns a path exactly when the sink is
\* reachable from the source through edges of neighbors with capacity - flow
\* > 0; a returned path starts at source, ends at sink, repeats no vertex, and
\* each of its consecutive pairs is such an edge.
C9_PathIffReachable ==
    /\ pc /= "panic"
    /\ ApReturned =>
        /\ path_option.some <=> sink \in Reach(graph, {source})
        /\ path_option.some =>
            LET path == path_option.val IN
            /\ Len(path) >= 1
            /\ path[1] = source
            /\ path[Len(path)] = sink
            /\ \A i, j \in 1..Len(path) : path[i] = path[j] => i = j
            /\ \A i \in 1..(Len(path) - 1) : Admissible(graph, path[i], path[i + 1])

\* inside max_flow, after an augmentation, augmenting_path returns a path of
\* at least two edges one of which is a zero-capacity reverse edge
C9_Witness ==
    /\ pc = "mf_match"
    /\ augs > 0
    /\ path_option.some
    /\ Len(path_option.val) >= 3
    /\ \E i \in 1..(Len(path_option.val) - 1) :
          graph.edges[path_option.val[i]][path_option.val[i + 1]].capacity = 0

(* ------------------------------------------------------------------ *)
(* C10                                                                *)
(* ------------------------------------------------------------------ *)

Frontier(it) == IF it.search = BFS THEN it.queue ELSE it.stack

\* the frontier of `it` with the vertex pop() takes removed
Popped(it) ==
    IF it.search = BFS THEN Tail(it.queue) ELSE SubSeq(it.stack, 1, Len(it.stack) - 1)

SinkItem(it) == <<it.sink, it.distances[it.sink], it.parents[it.sink]>>

\* a step that calls next() on the iterator in progress
TraversalStep == pc = "ap_iter" \/ (pc = "it_open" /\ pc' = "it_open")

\* once the sink is found the last item produced is the sink's, and next()
\* yields None and leaves the iterator alone
StoppedAtSink ==
    iter.sink_found =>
        /\ visited /= <<>>
        /\ visited[Len(visited)] = SinkItem(iter)
        /\ iter.distances[iter.sink] /= U32_MAX
        /\ IterNext(graph, iter) = [it |-> iter, item |-> None]

\* with source = sink the traversal yields (source, 0, usize::MAX) and
\* nothing else, and discovers no other vertex
SourceIsSink ==
    (source = sink /\ pc \in {"ap_iter", "it_open"}) =>
        /\ Len(visited) <= 1
        /\ (visited /= <<>> => visited = <<<<source, 0, USIZE_MAX>>>> /\ iter.sink_found)
        /\ (last_item.some => visited /= <<>>)
        /\ Frontier(iter) = IF visited = <<>> THEN <<source>> ELSE <<>>
        /\ \A v \in V : iter.parents[v] = USIZE_MAX
        /\ \A v \in V \ {source} : iter.distances[v] = U32_MAX

\* the step that pops the sink produces the sink's item and discovers and
\* pushes nothing; a next() after it produces nothing and changes nothing
SinkStep ==
    TraversalStep =>
        /\ (iter.sink_found =>
                iter' = iter /\ visited' = visited /\ ~last_item'.some)
        /\ (~iter.sink_found /\ iter'.sink_found =>
                /\ iter'.distances = iter.distances
                /\ iter'.parents = iter.parents
                /\ Frontier(iter') = Popped(iter)
                /\ last_item' = Some(SinkItem(iter))
                /\ visited' = Append(visited, SinkItem(iter)))

\* C10: in both modes the traversal stops when the sink is popped: the sink's
\* item is produced with its distance and parent, the sink's edges are not
\* explored, every later next() yields nothing, what is left on the frontier
\* is never produced; with source = sink exactly one item is produced and no
\* neighbor of the source is discovered.
C10_StopsAtSink == [](StoppedAtSink /\ SourceIsSink) /\ [][SinkStep]_vars

\* next() has been called after the sink was produced, with a vertex left on
\* the frontier and an undiscovered vertex next to the sink
C10_Witness ==
    /\ pc = "it_open"
    /\ source /= sink
    /\ iter.sink_found
    /\ ~last_item.some
    /\ Frontier(iter) /= <<>>
    /\ \E w \in V : IsEdge(graph, sink, w) /\ iter.distances[w] = U32_MAX

\* a traversal with source = sink has produced its item, and the source has a
\* neighbor
C10_WitnessSourceIsSink ==
    /\ pc = "it_open"
    /\ source = sink
    /\ visited /= <<>>
    /\ \E w \in V \ {source} : IsEdge(graph, source, w)

(* ------------------------------------------------------------------ *)
(* C11                                                                *)
(* ------------------------------------------------------------------ *)

\* the number of rounds after which target joins the set reached from
\* `reached` along edges u->w with w in neighbors[u] and the predicate of
\* `it` true on edges[u][w]; U32_MAX when it never does
RECURSIVE HopDist(_, _, _, _, _)
HopDist(g, it, reached, target, d) ==
    IF target \in reached THEN d
    ELSE LET more == {w \in Vertexes(g.n_vertexes) :
                        \E u \in reached :
                            IsEdge(g, u, w) /\ evaluate_predicate(it, g.edges[u][w])}
         IN IF more \subseteq reached THEN U32_MAX
            ELSE HopDist(g, it, reached \cup more, target, d + 1)

\* the fewest admissible edges on a path from s to v
ShortestHops(g, it, s, v) == HopDist(g, it, {s}, v, 0)

\* a traversal is under way or has ended, and the graph it ran on is unchanged
TraversalLive ==
    \/ pc \in {"ap_iter", "it_open", "mf_match"}
    \/ (pc = "idle" /\ call = "augmenting_path")

\* C11: in breadth-first mode every item (v, d, p) produced has d equal to the
\* fewest admissible edges on a path from the source to v, and the items come
\* in non-decreasing order of d
C11_BfsShortestHops ==
    (TraversalLive /\ iter.search = BFS) =>
        \A i \in 1..Len(visited) :
            /\ visited[i][2] = ShortestHops(graph, iter, source, visited[i][1])
            /\ i > 1 => visited[i - 1][2] <= visited[i][2]

\* a breadth-first traversal under flow_predicate that produced a vertex two
\* or more edges away while a full edge of the graph was not admissible
C11_Witness ==
    /\ pc = "ap_iter"
    /\ iter.search = BFS
    /\ \E i \in 1..Len(visited) : visited[i][2] >= 2
    /\ \E u \in V : \E v \in V :
          IsEdge(graph, u, v) /\ graph.edges[u][v].capacity > 0 /\ Residual(graph, u, v) = 0

\* a breadth-first traversal of bfs_iter that met an already discovered vertex
\* again over a longer route
C11_WitnessLongerRoute ==
    /\ pc = "it_open"
    /\ iter.search = BFS
    /\ \E i \in 1..Len(visited) : \E u \in V :
          /\ IsEdge(graph, u, visited[i][1])
          /\ iter.distances[u] /= U32_MAX
          /\ iter.distances[u] + 1 > visited[i][2]
          /\ visited[i][2] >= 1

(* ------------------------------------------------------------------ *)
(* C12                                                                *)
(* ------------------------------------------------------------------ *)

\* vertex_list is exactly 0, 1, ..., n - 1 in that order
ValidVertexList == vertex_list = [i \in 1..Len(vertex_list) |-> i - 1]

\* Graph::new panicked: no graph exists and no call was made on one
ConstructionAborted == pc = "panic" /\ call = "none"

\* Graph::new returned a graph
GraphReturned == pc /= "new" /\ ~ConstructionAborted

\* C12: Graph::new returns a graph only when the vertex list is exactly
\* 0, 1, ..., n - 1 in that order; with any other vertex list it aborts and
\* no graph is returned
C12_OnlyContiguousVertexLists ==
    /\ GraphReturned => ValidVertexList
    /\ (pc /= "new" /\ ~ValidVertexList) =>
          (ConstructionAborted /\ graph = GraphNew(0, <<>>))

\* Graph::new aborted on a vertex list that holds the ids 0..n-1 in another
\* order, with every edge endpoint in range
C12_Witness ==
    /\ ConstructionAborted
    /\ Len(vertex_list) = NumVertexes
    /\ {vertex_list[i] : i \in 1..Len(vertex_list)} = Vertexes(NumVertexes)
    /\ ~ValidVertexList
    /\ edge_list /= <<>>

\* Graph::new returned a graph for a valid vertex list
C12_WitnessReturned ==
    /\ pc = "idle" /\ call = "none"
    /\ Len(vertex_list) = NumVertexes
    /\ edge_list /= <<>>

(* ------------------------------------------------------------------ *)
(* C13                                                                *)
(* ------------------------------------------------------------------ *)

\* augmenting_path or max_flow has handed a result back to its caller
\* (max_flow's own call of augmenting_path included)
CallReturned ==
    \/ pc = "mf_match"
    \/ (pc = "idle" /\ call \in {"augmenting_path", "max_flow"})

\* C13: an out-of-range vertex index always aborts and never yields a result:
\* Graph::new aborts on an edge endpoint >= n, and augmenting_path and
\* max_flow abort when source >= n or sink >= n
C13_OutOfRangeAborts ==
    /\ (pc /= "new" /\ ~EdgesInRange(Len(vertex_list), PassedEdgeList))
          => ConstructionAborted
    /\ (GraphReturned /\ (source \notin V \/ sink \notin V)) => ~CallReturned

\* the part of C13 that the code keeps: an edge endpoint >= n aborts
\* Graph::new, and a source >= n aborts augmenting_path and max_flow
C13_SourceOutOfRangeAborts ==
    /\ (pc /= "new" /\ ~EdgesInRange(Len(vertex_list), PassedEdgeList))
          => ConstructionAborted
    /\ (GraphReturned /\ source \notin V) =>
          (~CallReturned /\ (call \in {"augmenting_path", "max_flow"} => pc \in {"mf_loop", "panic"}))

\* a call with source >= n on a graph that was returned has aborted
C13_WitnessSourceAborts ==
    /\ GraphReturned
    /\ source \notin V
    /\ sink \in V
    /\ pc = "panic"
    /\ call = "max_flow"

(* ------------------------------------------------------------------ *)
(* C14                                                                *)
(* ------------------------------------------------------------------ *)

\* Graph::new has just returned the graph
JustBuilt == pc = "idle" /\ call = "none"

\* the non-default entries of row v of the edge matrix
NonDefault(v) == {u \in V : graph.edges[v][u] /= DefaultFlowEdge}

\* the entries of the edge list handed to Graph::new that leave v
TriplesFrom(v) == {j \in 1..Len(PassedEdgeList) : PassedEdgeList[j][1] = v}

\* no pair is repeated in the edge list handed to Graph::new
NoRepeatedPassedPair ==
    \A i, j \in 1..Len(PassedEdgeList) :
        (PassedEdgeList[i][1] = PassedEdgeList[j][1] /\
         PassedEdgeList[i][2] = PassedEdgeList[j][2]) => i = j

\* no entry of the edge list handed to Graph::new has the default property
NoDefaultProperty ==
    \A j \in 1..Len(PassedEdgeList) : PassedEdgeList[j][3] /= DefaultFlowEdge

\* neighbors[v] and the non-default entries of row v are the same ids, the
\* ids are below n, and there are as many of the one as of the other
NeighborsMatchRow(v) ==
    /\ \A u \in V : IsEdge(graph, v, u) <=> u \in NonDefault(v)
    /\ \A i \in 1..Len(graph.neighbors[v]) : graph.neighbors[v][i] \in V
    /\ Len(graph.neighbors[v]) = Cardinality(NonDefault(v))

\* C14: for every graph built by Graph::new, with or without
\* create_residual_edges, and every vertex v: u is in neighbors[v] exactly when
\* edges[v][u] is not the default value, every id in neighbors[v] is < n, and
\* neighbors[v] is as long as row v has non-default entries
C14_NeighborsMatchMatrix ==
    JustBuilt => \A v \in V : NeighborsMatchRow(v)

\* C14 as the code keeps it: neighbors[v] lists the destinations of the
\* triples that leave v, one entry per triple, all below n, and covers every
\* non-default entry of row v; it matches the non-default entries of the row
\* when no pair is repeated and no triple has the default property
C14_NeighborsMatchEdgeList ==
    JustBuilt => \A v \in V :
        /\ \A i \in 1..Len(graph.neighbors[v]) : graph.neighbors[v][i] \in V
        /\ \A u \in V :
              IsEdge(graph, v, u) <=> (\E j \in TriplesFrom(v) : PassedEdgeList[j][2] = u)
        /\ NonDefault(v) \subseteq {u \in V : IsEdge(graph, v, u)}
        /\ Len(graph.neighbors[v]) = Cardinality(TriplesFrom(v))
        /\ (NoRepeatedPassedPair /\ NoDefaultProperty) => NeighborsMatchRow(v)

\* a graph built with create_residual_edges whose neighbors list a vertex over
\* a default-valued entry of the matrix
C14_Witness ==
    /\ JustBuilt
    /\ residuals
    /\ \E v \in V : \E u \in V : IsEdge(graph, v, u) /\ u \notin NonDefault(v)

\* a graph built from distinct pairs without create_residual_edges
C14_WitnessPlain ==
    /\ JustBuilt
    /\ ~residuals
    /\ Len(edge_list) = MaxNewEdges
    /\ NoRepeatedPassedPair

(* ------------------------------------------------------------------ *)
(* C15                                                                *)
(* ------------------------------------------------------------------ *)

\* the entries of the edge list handed to Graph::new for the pair (u, v)
TriplesOf(u, v) ==
    {j \in 1..Len(PassedEdgeList) : PassedEdgeList[j][1] = u /\ PassedEdgeList[j][2] = v}

\* the largest element of a non-empty set of numbers
Last(S) == CHOOSE j \in S : \A k \in S : k <= j

\* C15: for every valid vertex list of length n and every edge list with
\* in-range endpoints Graph::new returns a graph with size() = (n, number of
\* triples), edges[u][v] the property of the last triple of the pair (u, v),
\* and the default value for every pair in no triple
C15_GraphNewContents ==
    /\ (pc /= "new" /\ ValidVertexList /\ EdgesInRange(Len(vertex_list), PassedEdgeList))
          => GraphReturned
    /\ JustBuilt =>
          /\ size(graph) = <<Len(vertex_list), Len(PassedEdgeList)>>
          /\ \A u \in V : \A v \in V :
                graph.edges[u][v] =
                    IF TriplesOf(u, v) = {} THEN DefaultFlowEdge
                    ELSE PassedEdgeList[Last(TriplesOf(u, v))][3]

\* a graph built from an edge list that repeats a pair with another property
C15_Witness ==
    /\ JustBuilt
    /\ ~residuals
    /\ Len(vertex_list) = NumVertexes
    /\ \E i, j \in 1..Len(edge_list) :
          /\ i < j
          /\ edge_list[i][1] = edge_list[j][1]
          /\ edge_list[i][2] = edge_list[j][2]
          /\ edge_list[i][3] /= edge_list[j][3]

(* ------------------------------------------------------------------ *)
(* C16                                                                *)
(* ------------------------------------------------------------------ *)

\* the sequences [source, ..., sink] in which every element after the first
\* is an index of the map, is not the source, and has the element before it
\* as its entry: at most one, present when following the parents from sink
\* reaches source
ParentChains ==
    LET m == ap.node_parent_map
        n == Cardinality(DOMAIN m)
    IN {p \in UNION {[1..k -> 0..NumVertexes] : k \in 1..(n + 1)} :
          /\ p[1] = source
          /\ p[Len(p)] = sink
          /\ \A i \in 2..Len(p) :
                p[i] /= source /\ p[i] \in DOMAIN m /\ m[p[i]] = p[i - 1]}

\* path_from_visited has been called and the call is over or stuck
PathCalled == call = "path_from_visited"

\* C16: path_from_visited returns [source, ..., sink] along the parents when
\* following them from sink reaches source, and for every other parent map it
\* faults with an out-of-range lookup: it neither returns nor runs forever
C16_PathOrFault ==
    PathCalled =>
        IF ParentChains /= {}
        THEN pc = "idle" /\ path_option.some /\ path_option.val \in ParentChains
        ELSE pc = "panic"

\* what the code does: the same, except that it never leaves its loop when
\* the parents from sink run into a cycle without source
C16_PathFaultOrLoop ==
    PathCalled =>
        IF ParentChains /= {}
        THEN pc = "idle" /\ path_option.some /\ path_option.val \in ParentChains
        ELSE pc \in {"panic", "diverge"}

\* the call on a map whose parents from sink cycle without meeting source
C16_WitnessLoop ==
    /\ PathCalled
    /\ pc = "diverge"
    /\ sink \in DOMAIN ap.node_parent_map
    /\ ap.node_parent_map[sink] = sink

\* the call returned a path of three vertexes
C16_WitnessPath ==
    /\ PathCalled
    /\ pc = "idle"
    /\ Len(path_option.val) = 3

\* the call faulted on the entry usize::MAX
C16_WitnessFault ==
    /\ PathCalled
    /\ pc = "panic"
    /\ sink \in DOMAIN ap.node_parent_map

(* ------------------------------------------------------------------ *)
(* C17                                                                *)
(* ------------------------------------------------------------------ *)

\* max_flow has just returned on the network of case c
ReturnedOn(c) ==
    /\ JustReturned
    /\ edge_list = c.edge_list
    /\ residuals = c.residuals
    /\ source = c.source
    /\ sink = c.sink

\* C17: on the 7-vertex network 0->1(1), 0->2(1), 1->3(1), 1->5(1), 2->5(1),
\* 2->6(1), 3->4(1), 5->6(1), 6->4(2) with residual edges, max_flow from 0 to
\* 4 returns 4
C17_UnitNetworkReturns4 == ReturnedOn(UnitRoute134) => total_flow.val = 4

\* on the network of test_max_flow_0, where 0->1 has capacity 3 and 1->3 and
\* 3->4 have capacity 2, max_flow from 0 to 4 returns 4; with capacity 1 on
\* these three edges it returns 2
C17_TestNetworkReturns4 ==
    /\ ReturnedOn(TestMaxFlow0) => total_flow.val = 4
    /\ ReturnedOn(UnitRoute134) => total_flow.val = 2

\* max_flow returned on the network of test_max_flow_0 in depth-first mode
C17_Witness == ReturnedOn(TestMaxFlow0) /\ mf_search = DFS

\* max_flow returned on the network with the capacities the claim lists
C17_WitnessUnit == ReturnedOn(UnitRoute134) /\ mf_search = BFS

(* ------------------------------------------------------------------ *)
(* C18                                                                *)
(* ------------------------------------------------------------------ *)

\* a 'p' line, an 'n ... s' or 'n ... t' line, or an 'a u v capacity' line
ProblemLine(l) == Len(l) = 4 /\ l[1] = Word("p") /\ IsUsize(l[3]) /\ IsInt(l[4])

EdgeLine(l) ==
    Len(l) = 4 /\ l[1] = Word("a") /\ IsUsize(l[2]) /\ IsUsize(l[3]) /\ IsInt(l[4])

NodeLine(l) ==
    Len(l) = 3 /\ l[1] = Word("n") /\ IsUsize(l[2]) /\ l[3] \in {Word("s"), Word("t")}

\* lines f holds a line that is none of these
HasMalformedLine(f) ==
    \E i \in 1..Len(f) : ~(ProblemLine(f[i]) \/ EdgeLine(f[i]) \/ NodeLine(f[i]))

\* the number of 'a' edge lines of f
EdgeLineCount(f) == Cardinality({i \in 1..Len(f) : EdgeLine(f[i])})

\* the counts the last 'p' line of f declares, 0 and 0 without a 'p' line
Declared(f) ==
    LET P == {i \in 1..Len(f) : ProblemLine(f[i])} IN
    IF P = {} THEN [vertexes |-> 0, edges |-> 0]
    ELSE [vertexes |-> f[Last(P)][3].n, edges |-> f[Last(P)][4].n]

\* the vertexes named by the edge lines of f whose capacity is at least c
EdgeVertexes(f, c) ==
    UNION {{f[i][2].n, f[i][3].n} : i \in {j \in 1..Len(f) : EdgeLine(f[j]) /\ f[j][4].n >= c}}

\* the lines of f before its first empty line or lone "a"
ReadPart(f) ==
    LET T == {i \in 1..Len(f) : f[i] = <<>> \/ f[i] = <<Word("a")>>} IN
    IF T = {} THEN f
    ELSE SubSeq(f, 1, (CHOOSE i \in T : \A k \in T : i <= k) - 1)

\* flow_from_dicaps was called and has returned or aborted
DicapsCalled == call = "flow_from_dicaps"

\* C18: flow_from_dicaps aborts without a graph on every file with a
\* malformed line anywhere, on every file whose number of 'a' lines differs
\* from the declared edge count, and on every file whose number of distinct
\* vertexes differs from the declared vertex count
C18_AbortsOnEveryBadFile ==
    (/\ DicapsCalled
     /\ \/ HasMalformedLine(file)
        \/ EdgeLineCount(file) /= Declared(file).edges
        \/ Cardinality(EdgeVertexes(file, 0)) /= Declared(file).vertexes)
    => pc = "panic"

\* C18 as the code keeps it: the same three checks on the lines read, which
\* are those before the first empty line or lone "a", with the vertexes
\* counted over the edge lines of positive capacity
C18_AbortsOnBadLinesRead ==
    (/\ DicapsCalled
     /\ \/ HasMalformedLine(ReadPart(file))
        \/ EdgeLineCount(ReadPart(file)) /= Declared(ReadPart(file)).edges
        \/ Cardinality(EdgeVertexes(ReadPart(file), 1)) /= Declared(ReadPart(file)).vertexes)
    => pc = "panic"

\* the abort on a file whose only fault is a malformed line among the lines read
C18_Witness ==
    /\ DicapsCalled
    /\ pc = "panic"
    /\ HasMalformedLine(ReadPart(file))
    /\ EdgeLineCount(ReadPart(file)) = Declared(ReadPart(file)).edges
    /\ Cardinality(EdgeVertexes(ReadPart(file), 1)) = Declared(ReadPart(file)).vertexes
    /\ Declared(ReadPart(file)).vertexes = 2

\* the abort on a well-formed file with one edge line too many
C18_WitnessEdgeCount ==
    /\ DicapsCalled
    /\ pc = "panic"
    /\ ~HasMalformedLine(file)
    /\ EdgeLineCount(file) = Declared(file).edges + 1
    /\ Declared(file).edges = 1

\* the abort on a well-formed file whose edge lines of positive capacity name
\* fewer vertexes than declared
C18_WitnessVertexCount ==
    /\ DicapsCalled
    /\ pc = "panic"
    /\ ~HasMalformedLine(file)
    /\ EdgeLineCount(file) = Declared(file).edges
    /\ Cardinality(EdgeVertexes(file, 1)) < Declared(file).vertexes

\* a graph returned from a file that holds a comment line after an empty line
C18_WitnessIgnoredLine ==
    /\ DicapsCalled
    /\ pc = "idle"
    /\ graph.n_vertexes = 2
    /\ \E i \in 1..Len(file) : file[i] = <<Word("c"), Word("x")>>

(* ------------------------------------------------------------------ *)
(* C19                                                                *)
(* ------------------------------------------------------------------ *)

\* the consecutive pairs of the augmenting path
PathPairs == {<<path_option.val[i], path_option.val[i + 1]>> :
                 i \in 1..(Len(path_option.val) - 1)}

\* this step is an augmentation: the Some(path) arm of max_flow
AugmentationStep == pc = "mf_match" /\ pc' = "mf_loop"

\* the amount this step pushes is the least capacity - flow over the pairs of
\* the path as they were before the step, it is at least 1, it was added to
\* every pair, and a pair of the path is full afterwards
PushesBottleneck ==
    /\ \E e \in PathPairs : flow' = Residual(graph, e[1], e[2])
    /\ \A e \in PathPairs : flow' <= Residual(graph, e[1], e[2])
    /\ flow' >= 1
    /\ \A e \in PathPairs :
          graph'.edges[e[1]][e[2]].flow = graph.edges[e[1]][e[2]].flow + flow'
    /\ \E e \in PathPairs :
          graph'.edges[e[1]][e[2]].flow = graph'.edges[e[1]][e[2]].capacity

\* C19: every augmentation of max_flow pushes the minimum of
\* capacity[u][v] - flow[u][v] over the consecutive pairs of the path, read
\* before any flow changes; the amount is at least 1 and afterwards at least
\* one edge of the path has flow equal to its capacity
C19_PushesBottleneck == [][AugmentationStep => PushesBottleneck]_vars

\* the same for the augmentations with source /= sink
C19_BottleneckWhenDistinct ==
    [][(AugmentationStep /\ source /= sink) => PushesBottleneck]_vars

\* an augmentation along a path of three edges or more has been made
C19_WitnessLongPath ==
    /\ pc = "mf_loop"
    /\ augs > 0
    /\ source /= sink
    /\ Len(path_option.val) >= 4

\* an augmentation along the path that holds the source alone has been made
C19_WitnessEmptyPath ==
    /\ pc = "mf_loop"
    /\ augs > 0
    /\ path_option.val = <<source>>
    /\ flow = I32_MAX

(* ------------------------------------------------------------------ *)
(* C20                                                                *)
(* ------------------------------------------------------------------ *)

\* flow[u][v] = -flow[v][u] for every pair of vertexes
SkewSymmetric ==
    \A u \in V : \A v \in V : graph.edges[u][v].flow = -graph.edges[v][u].flow

\* the entries of the input edge list for the pair (u, v)
InputsOf(u, v) ==
    {j \in 1..Len(edge_list) : edge_list[j][1] = u /\ edge_list[j][2] = v}

\* C20: on a graph built with create_residual_edges from zero flow, at every
\* entry of the max_flow loop and after it returns, flow[u][v] = -flow[v][u]
\* for every pair and every input edge u->v of capacity c has
\* 0 <= flow[u][v] <= c
C20_SkewAndWithinInputCapacity ==
    (residuals /\ AtLoopEntryOrAfter) =>
        /\ SkewSymmetric
        /\ \A j \in 1..Len(edge_list) :
              LET f == graph.edges[edge_list[j][1]][edge_list[j][2]].flow
              IN 0 <= f /\ f <= edge_list[j][3].capacity

\* C20 as the code keeps it: the bound of a pair listed more than once is
\* the capacity of its last entry
C20_SkewAndWithinLastCapacity ==
    (residuals /\ AtLoopEntryOrAfter) =>
        /\ SkewSymmetric
        /\ \A j \in 1..Len(edge_list) :
              LET u == edge_list[j][1]
                  v == edge_list[j][2]
                  f == graph.edges[u][v].flow
              IN 0 <= f /\ f <= edge_list[Last(InputsOf(u, v))][3].capacity

\* max_flow has returned on a residual graph after two augmentations or more
C20_Witness ==
    /\ residuals
    /\ mf_returned
    /\ pc = "idle"
    /\ augs >= 2
    /\ \E u \in V : \E v \in V :
          graph.edges[u][v].capacity > 0 /\ graph.edges[u][v].flow > 0

\* flow on a pair listed twice, the first time with the smaller capacity
C20_WitnessRepeatedPair ==
    /\ residuals
    /\ mf_returned
    /\ \E i, j \in 1..Len(edge_list) :
          /\ i < j
          /\ edge_list[i][1] = edge_list[j][1]
          /\ edge_list[i][2] = edge_list[j][2]
          /\ edge_list[i][3].capacity < edge_list[j][3].capacity
          /\ graph.edges[edge_list[i][1]][edge_list[i][2]].flow > edge_list[i][3].capacity

(* ------------------------------------------------------------------ *)
(* C21                                                                *)
(* ------------------------------------------------------------------ *)

\* the capacities, the neighbors lists, n_edges and n_vertexes stay as they are
StructureKept ==
    /\ graph'.neighbors = graph.neighbors
    /\ graph'.n_edges = graph.n_edges
    /\ graph'.n_vertexes = graph.n_vertexes
    /\ \A u \in V : \A v \in V : graph'.edges[u][v].capacity = graph.edges[u][v].capacity

\* the flow of (u, v) changes exactly when (u, v) or (v, u) is a consecutive
\* pair of the path
FlowChangesOnPathOnly ==
    \A u \in V : \A v \in V :
        (graph'.edges[u][v].flow /= graph.edges[u][v].flow)
            <=> (<<u, v>> \in PathPairs \/ <<v, u>> \in PathPairs)

\* C21: max_flow never changes a capacity, a neighbors list, n_edges or
\* n_vertexes; an augmentation changes the flow of exactly the edges (u, v) and
\* (v, u) of the consecutive pairs of its path; every step of a traversal and
\* of augmenting_path leaves the whole graph as it is
C21_FrameOfMaxFlow ==
    [][/\ StructureKept
       /\ AugmentationStep => FlowChangesOnPathOnly
       /\ ~AugmentationStep => graph' = graph]_vars

\* a second augmentation or later has been made along a path of two edges or
\* more while an edge off the path carries flow
C21_Witness ==
    /\ pc = "mf_loop"
    /\ augs >= 2
    /\ Len(path_option.val) >= 3
    /\ \E u \in V : \E v \in V :
          /\ graph.edges[u][v].flow > 0
          /\ <<u, v>> \notin PathPairs
          /\ <<v, u>> \notin PathPairs

(* ------------------------------------------------------------------ *)
(* C22                                                                *)
(* ------------------------------------------------------------------ *)

\* no vertex is produced twice, and no more items than there are vertexes
ProducedOnce ==
    /\ \A i, j \in 1..Len(visited) : visited[i][1] = visited[j][1] => i = j
    /\ Len(visited) <= graph.n_vertexes

\* item i, when its vertex is not the source, names a parent produced before
\* it, over an admissible edge of the graph, one edge nearer to the source
ParentProducedEarlier(i) ==
    LET v == visited[i][1]
        d == visited[i][2]
        p == visited[i][3]
    IN v /= source =>
          \E j \in 1..(i - 1) :
              /\ visited[j][1] = p
              /\ IsEdge(graph, p, v)
              /\ evaluate_predicate(iter, graph.edges[p][v])
              /\ d = visited[j][2] + 1

\* a step of the traversal keeps the distance and parent of every vertex
\* discovered before it
DiscoveryKept ==
    \A v \in V :
        iter.distances[v] /= U32_MAX =>
            /\ iter'.distances[v] = iter.distances[v]
            /\ iter'.parents[v] = iter.parents[v]

\* C22: in both modes a traversal produces each vertex at most once, so at
\* most n items; every item (v, d, p) with v /= source has p produced earlier,
\* v in neighbors[p], the edge p->v admissible and d one more than the
\* distance produced for p; distance and parent never change after discovery
C22_TraversalTree ==
    /\ [](TraversalLive =>
             (ProducedOnce /\ \A i \in 1..Len(visited) : ParentProducedEarlier(i)))
    /\ [][TraversalStep => DiscoveryKept]_vars

\* a depth-first traversal has produced two vertexes joined by an admissible
\* edge that is not the edge from the parent
C22_Witness ==
    /\ pc \in {"ap_iter", "it_open"}
    /\ iter.search = DFS
    /\ Len(visited) >= 3
    /\ \E i, j \in 1..Len(visited) :
          LET u == visited[i][1]
              v == visited[j][1]
          IN /\ u /= visited[j][3]
             /\ v /= source
             /\ IsEdge(graph, u, v)
             /\ evaluate_predicate(iter, graph.edges[u][v])

(* ------------------------------------------------------------------ *)
(* C23                                                                *)
(* ------------------------------------------------------------------ *)

\* this step is the return of max_flow
ReturnStep == pc = "mf_match" /\ pc' = "idle"

\* C23: once max_flow(source, sink, mode') has returned, a further call
\* max_flow(source, sink, mode) makes no augmentation, leaves every flow as it
\* is and returns the total flow the first call returned
C23_SecondCallChangesNothing ==
    [][mf_returned =>
          /\ ~AugmentationStep
          /\ graph' = graph
          /\ ReturnStep => total_flow' = total_flow]_vars

\* a further call of max_flow has returned a positive total on a graph that
\* carried flow when it was called
C23_Witness ==
    /\ mf_returned
    /\ pc = "idle"
    /\ call = "max_flow"
    /\ ~entry_zero
    /\ total_flow.val > 0

(* ------------------------------------------------------------------ *)
(* C24                                                                *)
(* ------------------------------------------------------------------ *)

\* the capacities of the row of the source from vertex v on sum to at most
\* budget
RECURSIVE RowFits(_, _)
RowFits(v, budget) ==
    IF v >= graph.n_vertexes THEN TRUE
    ELSE LET c == graph.edges[source][v].capacity IN
         c <= budget /\ RowFits(v + 1, budget - c)

\* every capacity is in 0..2^31-1 and the capacities leaving the source sum
\* to at most 2^31-1
CapacitiesFitI32 ==
    /\ \A u \in V : \A v \in V :
          graph.edges[u][v].capacity >= 0 /\ graph.edges[u][v].capacity <= I32_MAX
    /\ source \in V
    /\ RowFits(0, I32_MAX)

\* the sum of the capacities leaving the source
RowCapacity == SumOver(V, [v \in V |-> graph.edges[source][v].capacity])

\* the flow of every pair is within the larger capacity of the pair
FlowWithinLargerCapacity ==
    \A u \in V : \A v \in V :
        LET m == max(graph.edges[u][v].capacity, graph.edges[v][u].capacity) IN
        -m <= graph.edges[u][v].flow /\ graph.edges[u][v].flow <= m

\* the total max_flow returned is at most the capacity leaving the source
TotalWithinRowCapacity ==
    (pc = "idle" /\ call = "max_flow") => total_flow.val <= RowCapacity

\* C24: when every capacity is in 0..2^31-1 and the capacities leaving the
\* source sum to at most 2^31-1, no subtraction or addition of max_flow leaves
\* i32: every flow stays within the larger capacity of its pair and the
\* returned total is at most the sum of the capacities leaving the source
C24_NoOverflowInI32 ==
    CapacitiesFitI32 =>
        /\ ~Overflows
        /\ FlowWithinLargerCapacity
        /\ TotalWithinRowCapacity

\* the parts of C24, one at a time
C24_NeverOverflows == CapacitiesFitI32 => ~Overflows

C24_FlowsWithin == CapacitiesFitI32 => FlowWithinLargerCapacity

C24_TotalWithin == CapacitiesFitI32 => TotalWithinRowCapacity

\* without an edge against an edge of positive capacity nothing overflows
C24_NoOverflowWithResiduals == (CapacitiesFitI32 /\ residuals) => ~Overflows

====
